---- MODULE Spec2Model ----
(***************************************************************************)
(* The OrderWarden dashboard page (src/app/page.tsx, identity-aware        *)
(* variant, lines 781-1312) under the root layout (src/unnamed/part_000).  *)
(*                                                                         *)
(* The page is a React component: its state is the useState cells, its     *)
(* operations are the event handlers and the continuations of the awaited  *)
(* fetch calls.  A handler that awaits a request is two steps: the part    *)
(* before the await (which puts a request in flight, together with the     *)
(* values its closure captured) and the part after it (which consumes the  *)
(* request and an outcome chosen by the backend).                          *)
(***************************************************************************)
EXTENDS Integers, Sequences, FiniteSets, TLC

\* ---------------------------------------------------------------- bounds
MaxRequests == 3        \* requests issued in one run
MaxInFlight == 2        \* requests awaiting their response at one time

\* ------------------------------------------------------------ data model
None == "none"                          \* null / undefined of a string cell
OrderIds == {"o1", "o2"}                \* Order.id: opaque strings
NoId == "none"                          \* a step about no particular order
UserIds == {"u1", "u2"}
RiskLevels == {"green", "red"}

\* interface Order: the identity and the backend-computed fields of an order
\* (riskLevel stands for the fields a tracking check rewrites).
Order == [id : OrderIds, riskLevel : RiskLevels]

\* The value of data.order when the body has no "order" member.  It is not
\* an Order: its id is outside OrderIds.
Undefined == [id |-> "undefined", riskLevel |-> "undefined"]

WellFormed(o) == o \in Order

RECURSIVE SeqsUpTo(_, _)
SeqsUpTo(S, n) ==
    IF n = 0 THEN {<<>>}
    ELSE LET shorter == SeqsUpTo(S, n - 1)
         IN  shorter \cup {Append(s, x) : s \in shorter, x \in S}

\* GET /api/orders success shape { orders: Order[] }: ids unique in the set.
OrderLists ==
    {s \in SeqsUpTo(Order, Cardinality(OrderIds)) :
        \A i, j \in DOMAIN s : i # j => s[i].id # s[j].id}

\* A JSON body seen by fetchOrders: with an "orders" member or without one.
NoOrdersBody == [has |-> FALSE, orders |-> <<>>]
ListBodies == {NoOrdersBody} \cup {[has |-> TRUE, orders |-> s] : s \in OrderLists}

\* What a request can come back with:
\*   ok         2xx response, JSON body of the documented success shape
\*   notOkJson  non-2xx response whose body is JSON (an error object)
\*   notOkText  non-2xx response whose body is not JSON (response.json() rejects)
\*   throws     fetch itself rejects (network failure)
Outcomes == {"ok", "notOkJson", "notOkText", "throws"}

\* await response.json() rejects
JsonThrows(outcome) == outcome \in {"notOkText", "throws"}

\* fetch rejects
FetchThrows(outcome) == outcome = "throws"

ResponseOk(outcome) == outcome = "ok"

Ids(os) == {os[i].id : i \in DOMAIN os}

VARIABLES
    isLoaded,       \* useUser().isLoaded
    isSignedIn,     \* useUser().isSignedIn
    userId,         \* useAuth().userId, None when absent
    location,       \* "app", or the destination the browser was sent to
    orders,         \* useState<Order[]>([])
    loading,        \* useState(true)
    error,          \* useState<string | null>(null)
    showAddOrder,   \* useState(false)
    modalLoading,   \* AddOrderModal: useState(false) of the mounted instance
    modalError,     \* AddOrderModal: useState<string | null>(null)
    inflight,       \* requests awaiting their response, with their closures
    issued,         \* number of requests sent so far
    last,           \* the step just taken: handler, order id, outcome, alert, body
    riskFilter,     \* view state: the risk filter, "all" or a risk level
    selectedIds,    \* view state: the selected-id set
    bulk,           \* the bulk delete: its attempted ids, requests and count
    pressed,        \* history: select-all presses in a row, the selection before them
    cell,           \* a rendered table row: its inputs and what is shown
    derived         \* what a render derives from the collection: lists, counts

vars == <<isLoaded, isSignedIn, userId, location, orders, loading, error,
          showAddOrder, modalLoading, modalError, inflight, issued, last,
          riskFilter, selectedIds, bulk, pressed, cell, derived>>

identity == <<isLoaded, isSignedIn, userId, location>>
page == <<orders, loading, error>>
modal == <<showAddOrder, modalLoading, modalError>>
viewState == <<riskFilter, selectedIds, bulk, pressed, cell, derived>>

\* The view state and the rendered row before anything has used them.
BulkIdle ==
    [phase |-> "idle", attempted |-> {}, remaining |-> {}, pending |-> {},
     results |-> {}, successCount |-> 0, reported |-> None]

NoPress == [n |-> 0, before |-> {}, afterFilter |-> FALSE]

NoCell ==
    [lastStatus |-> None, riskLevel |-> None, rendered |-> FALSE,
     status |-> None, risk |-> None]

NoDerived == [kind |-> "none"]

ViewIdle ==
    /\ riskFilter = "all"
    /\ selectedIds = {}
    /\ bulk = BulkIdle
    /\ pressed = NoPress
    /\ cell = NoCell
    /\ derived = NoDerived

\* fresh: the orders the handler's closure held were still the current ones
\* when its continuation ran (nothing changed the collection in between).
Ev(op, id, outcome, alert, body) ==
    [op |-> op, id |-> id, outcome |-> outcome, alert |-> alert, body |-> body,
     fresh |-> TRUE]

\* A click or a submit of the user.
UserEv == Ev("user", NoId, None, None, <<>>)

\* A request in flight.  snap and uid are the values of orders and userId in
\* the render whose handler sent it; live says, of a create request, that
\* the AddOrderModal instance that sent it is still mounted and, of a list
\* request, that no fetchOrders call has been made after it.
Req(n, kind, id, snap, uid, live) ==
    [n |-> n, kind |-> kind, id |-> id, snap |-> snap, uid |-> uid, live |-> live]

\* One more request can be sent within the bounds.
CanSend(reqs) == issued < MaxRequests /\ Cardinality(reqs) < MaxInFlight

\* The page throws while rendering a row of an element that is not an order
\* (order.id of undefined), and nothing catches it: the page is gone.
Crashed == \E i \in DOMAIN orders : ~WellFormed(orders[i])

Running == location = "app" /\ ~Crashed

\* <SignedIn>{children}</SignedIn>: the page is in the tree.
Mounted == isLoaded /\ isSignedIn /\ Running

\* if (loading) return <spinner/>: header, table and modal are rendered
\* only when loading is false.
DashboardRendered == Mounted /\ ~loading

\* {showAddOrder && userId && (<AddOrderModal .../>)}
ModalMounted == DashboardRendered /\ showAddOrder /\ userId # None

\* ------------------------------------------------- identity and redirect
\* Mutant of RedirectEffect: the negation of isSignedIn is lost.
RedirectEffect_Inverted(l, s, loc) == IF l /\ s THEN "landing" ELSE loc

\* DashboardPage, useEffect on [isLoaded, isSignedIn]:
\*   if (isLoaded && !isSignedIn) window.location.href = 'https://landing...'
RedirectEffect(l, s, loc) == IF l /\ ~s THEN "landing" ELSE loc

\* RootLayout: <SignedOut><RedirectToSignIn /></SignedOut>
RootLayoutRedirect(l, s, loc) == IF l /\ ~s THEN "signin" ELSE loc

\* <UserButton afterSignOutUrl="https://landing.orderwarden.com" />
AfterSignOutUrl == "landing"

\* The first render, before the identity provider has loaded: the useState
\* initial values, and the redirect of the effect and of the layout
\* evaluated with isLoaded = false.
Init ==
    /\ isLoaded = FALSE
    /\ isSignedIn = FALSE
    /\ userId = None
    /\ location \in {RedirectEffect(isLoaded, isSignedIn, "app"),
                     RootLayoutRedirect(isLoaded, isSignedIn, "app")}
    /\ orders = <<>>
    /\ loading = TRUE
    /\ error = None
    /\ showAddOrder = FALSE
    /\ modalLoading = FALSE
    /\ modalError = None
    /\ inflight = {}
    /\ issued = 0
    /\ last = Ev("init", NoId, None, None, <<>>)
    /\ ViewIdle

\* Unmounting the AddOrderModal instance: its pending handleSubmit
\* continuations now set the state of a component that is gone.
Orphaned(reqs) ==
    {IF r.kind = "create" THEN [r EXCEPT !.live = FALSE] ELSE r : r \in reqs}

\* A fetchOrders call is made: the list requests still pending are no
\* longer the most recently issued one.
Superseded(reqs) ==
    {IF r.kind = "list" THEN [r EXCEPT !.live = FALSE] ELSE r : r \in reqs}

\* fetchOrders up to its await:
\*   if (!userId) return; setLoading(true); fetch(.., {headers: {'x-clerk-user-id': userId}})
\* loading = true replaces the whole page by the spinner, so the modal
\* instance, if any, is unmounted.  reqs are the requests pending when it
\* is called.  (The bounds limit what the user and the identity provider
\* start, not what the code does in reaction: the refetch of onSuccess is
\* always sent.)
fetchOrders(uid, reqs) ==
    IF uid = None
    THEN /\ inflight' = reqs
         /\ UNCHANGED <<loading, issued, modalLoading, modalError>>
    ELSE /\ loading' = TRUE
         /\ issued' = issued + 1
         /\ inflight' = Superseded(Orphaned(reqs))
                          \cup {Req(issued + 1, "list", NoId, <<>>, uid, TRUE)}
         /\ modalLoading' = FALSE
         /\ modalError' = None

\* The identity provider finishes loading, with a signed-in user or without.
\* With a user, <SignedIn> mounts the page and its effects run: the redirect
\* effect, and the effect on [userId] that calls fetchOrders.
ClerkLoaded(u) ==
    /\ UNCHANGED viewState
    /\ Running
    /\ ~isLoaded
    /\ isLoaded' = TRUE
    /\ isSignedIn' = (u # None)
    /\ userId' = u
    /\ location' \in {RedirectEffect(TRUE, u # None, location),
                      RootLayoutRedirect(TRUE, u # None, location)}
    /\ fetchOrders(u, inflight)
    /\ UNCHANGED <<orders, error, showAddOrder>>
    /\ last' = Ev(IF u = None THEN "signedOut" ELSE "mount", NoId, None, None, <<>>)

\* The browser leaves the document: the component state and the pending
\* continuations are gone with it.
Unloaded ==
    /\ orders' = <<>>
    /\ loading' = TRUE
    /\ error' = None
    /\ showAddOrder' = FALSE
    /\ modalLoading' = FALSE
    /\ modalError' = None
    /\ inflight' = {}

\* The session ends (UserButton sign-out, or the provider reports it).
SignedOut ==
    /\ UNCHANGED viewState
    /\ Mounted
    /\ isSignedIn' = FALSE
    /\ userId' = None
    /\ location' \in {RedirectEffect(isLoaded, FALSE, location),
                      RootLayoutRedirect(isLoaded, FALSE, location),
                      AfterSignOutUrl}
    /\ Unloaded
    /\ UNCHANGED <<isLoaded, issued>>
    /\ last' = Ev("signedOut", NoId, None, None, <<>>)

\* The active session changes to another user (the UserButton's session
\* switch, or a sign-in in another tab that the provider propagates): userId
\* changes to another present value and the effect on [userId] runs.
UserSwitch(u) ==
    /\ UNCHANGED viewState
    /\ Mounted
    /\ CanSend(inflight)
    /\ u # userId
    /\ userId' = u
    /\ location' = RedirectEffect(isLoaded, isSignedIn, location)
    /\ fetchOrders(u, inflight)
    /\ UNCHANGED <<isLoaded, isSignedIn, orders, error, showAddOrder>>
    /\ last' = Ev("userSwitch", NoId, None, None, <<>>)

\* ------------------------------------------------------------ list orders
\* data.orders || []
OrElseEmpty(body) == IF body.has THEN body.orders ELSE <<>>

\* Mutant of fetchOrdersOrders: the response is appended to the collection.
fetchOrdersOrders_Merge(os, outcome, body) ==
    IF JsonThrows(outcome) THEN os ELSE os \o OrElseEmpty(body)

\* fetchOrders after the await: the new value of orders
\*   const data = await response.json(); setOrders(data.orders || []);
\* (response.ok is not looked at)
fetchOrdersOrders(os, outcome, body) ==
    IF JsonThrows(outcome) THEN os ELSE OrElseEmpty(body)

\* fetchOrders after the await: the new value of error
\*   setError(null)  /  catch: setError('Failed to load orders')
fetchOrdersError(outcome) ==
    IF JsonThrows(outcome) THEN "Failed to load orders" ELSE None

\* Mutant of fetchOrdersLoading: setLoading(false) at the end of the try
\* block instead of in finally.
fetchOrdersLoading_InTry(outcome) == JsonThrows(outcome)

\* finally { setLoading(false) }
fetchOrdersLoading(outcome) == FALSE

\* The bodies the backend can send with an outcome.
ListBodiesOf(outcome) == IF ResponseOk(outcome) THEN ListBodies ELSE {NoOrdersBody}

\* Mutant of fetchOrdersDone: a failed list request is sent again.
fetchOrdersDone_Retry(r, outcome, body) ==
    /\ UNCHANGED viewState
    /\ Running
    /\ r \in inflight
    /\ r.kind = "list"
    /\ orders' = fetchOrdersOrders(orders, outcome, body)
    /\ error' = fetchOrdersError(outcome)
    /\ IF JsonThrows(outcome) /\ issued < MaxRequests
       THEN /\ loading' = TRUE
            /\ issued' = issued + 1
            /\ inflight' = Superseded(inflight \ {r})
                   \cup {Req(issued + 1, "list", NoId, <<>>, r.uid, TRUE)}
       ELSE /\ loading' = fetchOrdersLoading(outcome)
            /\ inflight' = inflight \ {r}
            /\ UNCHANGED issued
    /\ UNCHANGED <<identity, showAddOrder, modalLoading, modalError>>
    /\ last' = [Ev("fetchOrders", NoId, outcome, None, body.orders)
                   EXCEPT !.fresh = r.live]

fetchOrdersDone(r, outcome, body) ==
    /\ UNCHANGED viewState
    /\ Running
    /\ r \in inflight
    /\ r.kind = "list"
    /\ orders' = fetchOrdersOrders(orders, outcome, body)
    /\ error' = fetchOrdersError(outcome)
    /\ loading' = fetchOrdersLoading(outcome)
    /\ inflight' = inflight \ {r}
    /\ UNCHANGED <<identity, showAddOrder, modalLoading, modalError, issued>>
    /\ last' = [Ev("fetchOrders", NoId, outcome, None, body.orders)
                   EXCEPT !.fresh = r.live]

\* ----------------------------------------------------------- delete order
\* orders.filter(order => order.id !== orderId)
Remove(os, orderId) == SelectSeq(os, LAMBDA o : o.id # orderId)

\* deleteOrder up to its await, for a row of the table:
\*   if (!userId) return; if (!confirm(..)) return; fetch(.., {method: 'DELETE'})
\* The closure holds the orders of the render the button belongs to.
deleteOrder(orderId, confirmed) ==
    /\ UNCHANGED viewState
    /\ DashboardRendered
    /\ orderId \in Ids(orders)
    /\ IF userId = None \/ ~confirmed
       THEN UNCHANGED <<inflight, issued, last>>
       ELSE /\ CanSend(inflight)
            /\ issued' = issued + 1
            /\ inflight' = inflight
                 \cup {Req(issued + 1, "delete", orderId, orders, userId, FALSE)}
            /\ last' = UserEv
    /\ UNCHANGED <<identity, page, modal>>

\* Mutant of deleteOrderOrders: the order is removed whatever the response.
deleteOrderOrders_Optimistic(os, snap, orderId, outcome) == Remove(snap, orderId)

\* deleteOrder after the await: the new value of orders
\*   if (response.ok) setOrders(orders.filter(..)) -- orders of the closure
deleteOrderOrders(os, snap, orderId, outcome) ==
    IF ~FetchThrows(outcome) /\ ResponseOk(outcome) THEN Remove(snap, orderId) ELSE os

\* deleteOrder after the await: the alert shown
\*   else alert('Failed to delete order')  /  catch: alert('Failed to delete order')
deleteOrderAlert(outcome) ==
    IF ~FetchThrows(outcome) /\ ResponseOk(outcome) THEN None ELSE "Failed to delete order"

deleteOrderDone(r, outcome) ==
    /\ UNCHANGED viewState
    /\ Running
    /\ r \in inflight
    /\ r.kind = "delete"
    /\ orders' = deleteOrderOrders(orders, r.snap, r.id, outcome)
    /\ inflight' = inflight \ {r}
    /\ UNCHANGED <<identity, loading, error, modal, issued>>
    /\ last' = [Ev("deleteOrder", r.id, outcome, deleteOrderAlert(outcome), <<>>)
                   EXCEPT !.fresh = (r.snap = orders)]

\* --------------------------------------------------------- check tracking
\* Mutant of Replace: the updated order is moved to the front.
Replace_MoveToFront(os, orderId, o) == <<o>> \o Remove(os, orderId)

\* orders.map(order => order.id === orderId ? data.order : order)
Replace(os, orderId, o) ==
    [i \in DOMAIN os |-> IF os[i].id = orderId THEN o ELSE os[i]]

\* checkTracking up to its await, for a row of the table:
\*   if (!userId) return; fetch(`../${orderId}/check`, {method: 'POST'})
checkTracking(orderId) ==
    /\ UNCHANGED viewState
    /\ DashboardRendered
    /\ orderId \in Ids(orders)
    /\ IF userId = None
       THEN UNCHANGED <<inflight, issued>>
       ELSE /\ CanSend(inflight)
            /\ issued' = issued + 1
            /\ inflight' = inflight
                 \cup {Req(issued + 1, "check", orderId, orders, userId, FALSE)}
    /\ UNCHANGED <<identity, page, modal>>
    /\ last' = UserEv

\* checkTracking after the await: the new value of orders
\*   const data = await response.json();
\*   setOrders(orders.map(..))            -- orders of the closure
\* (response.ok is not looked at; o is data.order)
checkTrackingOrders(os, snap, orderId, outcome, o) ==
    IF JsonThrows(outcome) THEN os ELSE Replace(snap, orderId, o)

\* checkTracking after the await: the alert shown
\*   if (data.recommendedMessage) alert(`Recommended Message:..`)
\*   catch: alert('Failed to check tracking')
checkTrackingAlert(outcome, msg) ==
    IF JsonThrows(outcome) THEN "Failed to check tracking"
    ELSE IF ResponseOk(outcome) /\ msg THEN "Recommended Message" ELSE None

\* data.order and data.recommendedMessage of the bodies the backend can
\* answer a check of orderId with: on the documented success shape
\* { order, recommendedMessage? } the order of that id, in any state; on an
\* error object both are undefined.
CheckOrdersOf(orderId, outcome) ==
    IF ResponseOk(outcome) THEN {o \in Order : o.id = orderId} ELSE {Undefined}

CheckMessagesOf(outcome) == IF ResponseOk(outcome) THEN BOOLEAN ELSE {FALSE}

checkTrackingDone(r, outcome, o, msg) ==
    /\ UNCHANGED viewState
    /\ Running
    /\ r \in inflight
    /\ r.kind = "check"
    /\ orders' = checkTrackingOrders(orders, r.snap, r.id, outcome, o)
    /\ inflight' = inflight \ {r}
    /\ UNCHANGED <<identity, loading, error, modal, issued>>
    /\ last' = [Ev("checkTracking", r.id, outcome, checkTrackingAlert(outcome, msg),
                     IF ResponseOk(outcome) THEN <<o>> ELSE <<>>)
                   EXCEPT !.fresh = (r.snap = orders)]

\* -------------------------------------------------------------- add order
\* onClick={() => setShowAddOrder(true)} of the header and empty-state buttons
OpenAddOrder ==
    /\ UNCHANGED viewState
    /\ DashboardRendered
    /\ ~showAddOrder
    /\ showAddOrder' = TRUE
    /\ UNCHANGED <<identity, page, modalLoading, modalError, inflight, issued>>
    /\ last' = UserEv

\* onClose={() => setShowAddOrder(false)}: the modal instance is unmounted
onClose ==
    /\ UNCHANGED viewState
    /\ ModalMounted
    /\ showAddOrder' = FALSE
    /\ modalLoading' = FALSE
    /\ modalError' = None
    /\ inflight' = Orphaned(inflight)
    /\ UNCHANGED <<identity, page, issued>>
    /\ last' = UserEv

\* handleSubmit up to its await (the submit button is disabled={loading}):
\*   setLoading(true); setError(null); fetch(.., {method: 'POST', ..})
handleSubmit ==
    /\ UNCHANGED viewState
    /\ ModalMounted
    /\ ~modalLoading
    /\ CanSend(inflight)
    /\ modalLoading' = TRUE
    /\ modalError' = None
    /\ issued' = issued + 1
    /\ inflight' = inflight \cup {Req(issued + 1, "create", NoId, <<>>, userId, TRUE)}
    /\ UNCHANGED <<identity, page, showAddOrder>>
    /\ last' = UserEv

\* Mutant of handleSubmitError: the response's ok flag is not tested, as in
\* fetchOrders and checkTracking.
handleSubmitError_NoOkCheck(outcome) ==
    IF FetchThrows(outcome) THEN "Failed to fetch" ELSE None

\* if (!response.ok) throw new Error('Failed to create order')
\* catch: setError(err instanceof Error ? err.message : 'An error occurred')
handleSubmitError(outcome) ==
    IF FetchThrows(outcome) THEN "Failed to fetch"
    ELSE IF ~ResponseOk(outcome) THEN "Failed to create order" ELSE None

\* onSuccess={() => { setShowAddOrder(false); fetchOrders(); }}
\* fetchOrders is the one of the render that passed the prop: its userId is
\* the one the modal was given.
onSuccess(uid, reqs) ==
    /\ showAddOrder' = FALSE
    /\ fetchOrders(uid, reqs)

\* Mutant of handleSubmitDone: the finally block clears the page's loading
\* flag instead of the modal's.
handleSubmitDone_ClearsPageLoading(r, outcome) ==
    /\ UNCHANGED viewState
    /\ Running
    /\ r \in inflight
    /\ r.kind = "create"
    /\ IF handleSubmitError(outcome) = None
       THEN onSuccess(r.uid, inflight \ {r})
       ELSE /\ inflight' = inflight \ {r}
            /\ loading' = FALSE
            /\ modalError' = IF r.live THEN handleSubmitError(outcome) ELSE modalError
            /\ UNCHANGED <<showAddOrder, modalLoading, issued>>
    /\ UNCHANGED <<identity, orders, error>>
    /\ last' = [Ev("handleSubmit", NoId, outcome, None, <<>>) EXCEPT !.fresh = r.live]

\* handleSubmit after the await. The history record marks as fresh a
\* completion whose AddOrderModal instance is still mounted.
handleSubmitDone(r, outcome) ==
    /\ UNCHANGED viewState
    /\ Running
    /\ r \in inflight
    /\ r.kind = "create"
    /\ IF handleSubmitError(outcome) = None
       THEN onSuccess(r.uid, inflight \ {r})
       ELSE /\ inflight' = inflight \ {r}
            /\ modalLoading' = IF r.live THEN FALSE ELSE modalLoading
            /\ modalError' = IF r.live THEN handleSubmitError(outcome) ELSE modalError
            /\ UNCHANGED <<showAddOrder, loading, issued>>
    /\ UNCHANGED <<identity, orders, error>>
    /\ last' = [Ev("handleSubmit", NoId, outcome, None, <<>>) EXCEPT !.fresh = r.live]

\* ------------------------------------------------------------------- Next
Next ==
    \/ \E u \in UserIds \cup {None} : ClerkLoaded(u)
    \/ SignedOut
    \/ \E u \in UserIds : UserSwitch(u)
    \/ \E r \in inflight, outcome \in Outcomes :
          \E body \in ListBodiesOf(outcome) : fetchOrdersDone(r, outcome, body)
    \/ \E orderId \in OrderIds, confirmed \in BOOLEAN : deleteOrder(orderId, confirmed)
    \/ \E r \in inflight, outcome \in Outcomes : deleteOrderDone(r, outcome)
    \/ \E orderId \in OrderIds : checkTracking(orderId)
    \/ \E r \in inflight, outcome \in Outcomes :
          \E o \in CheckOrdersOf(r.id, outcome), msg \in CheckMessagesOf(outcome) :
             checkTrackingDone(r, outcome, o, msg)
    \/ OpenAddOrder
    \/ onClose
    \/ handleSubmit
    \/ \E r \in inflight, outcome \in Outcomes : handleSubmitDone(r, outcome)

Spec == Init /\ [][Next]_vars

\* ------------------------------------------------------------- table row
\* The page as it is once it is mounted for a user and shows the orders os.
Loaded(os) ==
    /\ isLoaded = TRUE
    /\ isSignedIn = TRUE
    /\ userId = "u1"
    /\ location = "app"
    /\ orders = os
    /\ loading = FALSE
    /\ error = None
    /\ showAddOrder = FALSE
    /\ modalLoading = FALSE
    /\ modalError = None
    /\ inflight = {}
    /\ issued = 0
    /\ last = Ev("init", NoId, None, None, <<>>)

\* Values of lastStatus: the six statuses, 'unknown', strings the map does
\* not have, names every object inherits, the empty string and null.
StatusInputs ==
    {"pre_transit", "in_transit", "out_for_delivery", "delivered", "exception",
     "delivery_failed", "unknown", "returned", "DELIVERED", "constructor",
     "toString", "", None}

\* Values of riskLevel: the three levels, other spellings of them, another
\* string, the empty string and null.
RiskInputs == {"green", "yellow", "red", "GREEN", "Red", "purple", "", None}

\* JavaScript: null and '' are falsy, every other string is truthy.
Falsy(v) == v \in {None, ""}

JsUndefined == "undefined"

\* String.prototype.toLowerCase on the values above.
ToLowerCase(str) ==
    CASE str = "GREEN" -> "green"
      [] str = "Red" -> "red"
      [] str = "DELIVERED" -> "delivered"
      [] OTHER -> str

statusMap ==
    [pre_transit |-> [label |-> "Pre-Transit", color |-> "bg-blue-500 text-white"],
     in_transit |-> [label |-> "In Transit", color |-> "bg-blue-500 text-white"],
     out_for_delivery |-> [label |-> "Out for Delivery", color |-> "bg-emerald-500 text-white"],
     delivered |-> [label |-> "Delivered", color |-> "bg-emerald-500 text-white"],
     exception |-> [label |-> "Exception", color |-> "bg-red-500 text-white"],
     delivery_failed |-> [label |-> "Failed", color |-> "bg-red-500 text-white"],
     unknown |-> [label |-> "Unknown", color |-> "bg-gray-500 text-white"]]

\* statusMap is an object literal: a key it does not own is looked up on
\* Object.prototype, which has 'constructor', 'toString', ...: functions,
\* which are truthy and have neither a label nor a color.
ObjectPrototype == {"constructor", "toString"}

Inherited == [label |-> JsUndefined, color |-> JsUndefined]

\* statusMap[key] is truthy: an own entry or an inherited function.
Has(map, key) == key \in DOMAIN map \/ key \in ObjectPrototype

\* statusMap[key], when it is truthy
PropertyOf(map, key) == IF key \in DOMAIN map THEN map[key] ELSE Inherited

\* What a cell shows: its text and its colour classes. React renders no text
\* for undefined; reading a property of undefined throws a TypeError.
Shown(text, color) ==
    [text |-> IF text = JsUndefined THEN "" ELSE text, color |-> color]

TypeError == [text |-> "TypeError", color |-> "TypeError"]

\* <span className="text-slate-500 font-medium">&mdash;</span>
Dash == [text |-> "-", color |-> "text-slate-500"]

\* Mutant of getStatusBadge: no fallback to the 'unknown' entry.
getStatusBadge_NoFallback(status) ==
    IF Has(statusMap, status)
    THEN Shown(PropertyOf(statusMap, status).label, PropertyOf(statusMap, status).color)
    ELSE TypeError

\* const info = statusMap[status || 'unknown'] || statusMap['unknown'];
\* return <span className={`.. ${info.color}`}>{info.label}</span>
getStatusBadge(status) ==
    LET key == IF Falsy(status) THEN "unknown" ELSE status
        info == IF Has(statusMap, key) THEN PropertyOf(statusMap, key)
                ELSE statusMap["unknown"]
    IN  Shown(info.label, info.color)

\* {order.lastStatus ? getStatusBadge(order.lastStatus) : <span ..>&mdash;</span>}
StatusCell(lastStatus) ==
    IF Falsy(lastStatus) THEN Dash ELSE getStatusBadge(lastStatus)

\* Mutant of getRiskColor: the switch is on the value as it is spelled.
getRiskColor_CaseSensitive(riskLevel) ==
    IF Falsy(riskLevel) THEN "bg-gray-700 text-gray-300"
    ELSE CASE riskLevel = "green" -> "bg-emerald-500 text-white"
           [] riskLevel = "yellow" -> "bg-amber-400 text-gray-900"
           [] riskLevel = "red" -> "bg-red-500 text-white"
           [] OTHER -> "bg-gray-700 text-gray-300"

getRiskColor(riskLevel) ==
    IF Falsy(riskLevel) THEN "bg-gray-700 text-gray-300"
    ELSE CASE ToLowerCase(riskLevel) = "green" -> "bg-emerald-500 text-white"
           [] ToLowerCase(riskLevel) = "yellow" -> "bg-amber-400 text-gray-900"
           [] ToLowerCase(riskLevel) = "red" -> "bg-red-500 text-white"
           [] OTHER -> "bg-gray-700 text-gray-300"

\* {order.riskLevel ? <span className={`.. ${getRiskColor(order.riskLevel)}`}>
\*    {order.riskLevel}</span> : <span ..>&mdash;</span>}
RiskCell(riskLevel) ==
    IF Falsy(riskLevel) THEN Dash ELSE Shown(riskLevel, getRiskColor(riskLevel))

\* One row of the table is rendered for an order with these two fields.
RenderRow ==
    /\ ~cell.rendered
    /\ cell' = [cell EXCEPT !.rendered = TRUE,
                            !.status = StatusCell(cell.lastStatus),
                            !.risk = RiskCell(cell.riskLevel)]
    /\ UNCHANGED <<identity, page, modal, inflight, issued, last>>
    /\ UNCHANGED <<riskFilter, selectedIds, bulk, pressed, derived>>

RenderInit ==
    /\ Loaded(<<>>)
    /\ riskFilter = "all"
    /\ selectedIds = {}
    /\ bulk = BulkIdle
    /\ pressed = NoPress
    /\ derived = NoDerived
    /\ cell \in [lastStatus : StatusInputs, riskLevel : RiskInputs,
                 rendered : {FALSE}, status : {None}, risk : {None}]

RenderNext == RenderRow

RenderSpec == RenderInit /\ [][RenderNext]_vars

\* ------------------------------------------------------- order view model
\* The view model of the order table: risk filter, selection, select-all
\* and bulk delete.
ViewOrderIds == OrderIds \cup {"o3"}

RiskFilters == {"all"} \cup RiskLevels

\* Risk filter: exact match against riskLevel, or pass-through when "all".
Visible(os, filter) ==
    SelectSeq(os, LAMBDA o : filter = "all" \/ o.riskLevel = filter)

VisibleIds == Ids(Visible(orders, riskFilter))

\* Mutant of Prune: a delete leaves the selection as it is.
Prune_Keeps(selected, ids) == selected

\* Deleting orders removes their ids from the selection.
Prune(selected, ids) == selected \ ids

\* Mutant of SelectAllToggle: select-all adds the visible ids to the selection.
SelectAllToggle_Union(selected, visible) ==
    IF selected = visible THEN {} ELSE selected \cup visible

\* "Select all": if the selected set already equals the full visible set,
\* clear it; otherwise set it to exactly the visible set.
SelectAllToggle(selected, visible) ==
    IF selected = visible THEN {} ELSE visible

\* Mutant of setRiskFilter: the selection is pruned to the visible ids.
setRiskFilter_Prunes(filter) ==
    /\ filter # riskFilter
    /\ riskFilter' = filter
    /\ selectedIds' = selectedIds \cap Ids(Visible(orders, filter))
    /\ pressed' = [n |-> 0, before |-> selectedIds, afterFilter |-> selectedIds # {}]
    /\ UNCHANGED <<identity, page, modal, inflight, issued, last, bulk, cell, derived>>

\* The risk filter is changed: the selection is left alone.
setRiskFilter(filter) ==
    /\ filter # riskFilter
    /\ riskFilter' = filter
    /\ selectedIds' = selectedIds
    /\ pressed' = [n |-> 0, before |-> selectedIds, afterFilter |-> selectedIds # {}]
    /\ UNCHANGED <<identity, page, modal, inflight, issued, last, bulk, cell, derived>>

\* Toggling a single id adds/removes it.
toggleSelect(orderId) ==
    /\ orderId \in VisibleIds
    /\ selectedIds' = IF orderId \in selectedIds
                      THEN selectedIds \ {orderId}
                      ELSE selectedIds \cup {orderId}
    /\ pressed' = NoPress
    /\ UNCHANGED <<identity, page, modal, inflight, issued, last, riskFilter, bulk, cell, derived>>

toggleSelectAll ==
    /\ selectedIds' = SelectAllToggle(selectedIds, VisibleIds)
    /\ pressed' = IF pressed.n = 1
                  THEN [pressed EXCEPT !.n = 2, !.afterFilter = FALSE]
                  ELSE [n |-> 1, before |-> selectedIds, afterFilter |-> pressed.afterFilter]
    /\ UNCHANGED <<identity, page, modal, inflight, issued, last, riskFilter, bulk, cell, derived>>

\* A single delete of a visible order and its response: the order leaves the
\* collection on success only, its id leaves the selection in either case.
deleteVisibleOrder(orderId, outcome) ==
    /\ orderId \in VisibleIds
    /\ orders' = deleteOrderOrders(orders, orders, orderId, outcome)
    /\ selectedIds' = Prune(selectedIds, {orderId})
    /\ pressed' = NoPress
    /\ UNCHANGED <<identity, loading, error, modal, inflight, issued, last>>
    /\ UNCHANGED <<riskFilter, bulk, cell, derived>>

\* Mutant of bulkSucceeded: every response that arrived counts as a success.
bulkSucceeded_AnyResponse(outcome) == ~FetchThrows(outcome)

bulkSucceeded(outcome) == ~FetchThrows(outcome) /\ ResponseOk(outcome)

\* Mutant of bulkDelete: the delete requests are all sent at once.
bulkDelete_Parallel ==
    /\ selectedIds # {}
    /\ bulk.phase # "running"
    /\ bulk' = [phase |-> "running", attempted |-> selectedIds,
                remaining |-> {}, pending |-> selectedIds,
                results |-> {}, successCount |-> 0, reported |-> None]
    /\ pressed' = NoPress
    /\ UNCHANGED <<identity, page, modal, inflight, issued, last>>
    /\ UNCHANGED <<riskFilter, selectedIds, cell, derived>>

\* Bulk delete up to its first await: the selected ids are the ids to
\* attempt and the request of the first of them is sent.
bulkDelete ==
    /\ selectedIds # {}
    /\ bulk.phase # "running"
    /\ \E first \in selectedIds :
          bulk' = [phase |-> "running", attempted |-> selectedIds,
                   remaining |-> selectedIds \ {first}, pending |-> {first},
                   results |-> {}, successCount |-> 0, reported |-> None]
    /\ pressed' = NoPress
    /\ UNCHANGED <<identity, page, modal, inflight, issued, last>>
    /\ UNCHANGED <<riskFilter, selectedIds, cell, derived>>

\* Bulk delete after an await: the outcome is counted; then the request of
\* the next id is sent or, after the last one, every attempted id is removed
\* from the collection and from the selection and the count is reported.
bulkDeleteDone(orderId, outcome) ==
    /\ bulk.phase = "running"
    /\ orderId \in bulk.pending
    /\ LET count == bulk.successCount + (IF bulkSucceeded(outcome) THEN 1 ELSE 0)
           results == bulk.results \cup {<<orderId, outcome>>}
           pending == bulk.pending \ {orderId}
       IN  IF bulk.remaining # {}
           THEN /\ \E next \in bulk.remaining :
                      bulk' = [bulk EXCEPT !.remaining = @ \ {next},
                                           !.pending = pending \cup {next},
                                           !.results = results,
                                           !.successCount = count]
                /\ UNCHANGED <<orders, selectedIds>>
           ELSE IF pending # {}
           THEN /\ bulk' = [bulk EXCEPT !.pending = pending,
                                        !.results = results,
                                        !.successCount = count]
                /\ UNCHANGED <<orders, selectedIds>>
           ELSE /\ bulk' = [bulk EXCEPT !.phase = "done",
                                        !.pending = pending,
                                        !.results = results,
                                        !.successCount = count,
                                        !.reported = count]
                /\ orders' = SelectSeq(orders, LAMBDA o : o.id \notin bulk.attempted)
                /\ selectedIds' = Prune(selectedIds, bulk.attempted)
    /\ pressed' = NoPress
    /\ UNCHANGED <<identity, loading, error, modal, inflight, issued, last>>
    /\ UNCHANGED <<riskFilter, cell, derived>>

ViewInit ==
    /\ \E r1, r2, r3 \in RiskLevels :
          Loaded(<<[id |-> "o1", riskLevel |-> r1], [id |-> "o2", riskLevel |-> r2],
                   [id |-> "o3", riskLevel |-> r3]>>)
    /\ ViewIdle

ViewNext ==
    \/ \E filter \in RiskFilters : setRiskFilter(filter)
    \/ \E orderId \in ViewOrderIds : toggleSelect(orderId)
    \/ toggleSelectAll
    \/ \E orderId \in ViewOrderIds, outcome \in Outcomes : deleteVisibleOrder(orderId, outcome)
    \/ bulkDelete
    \/ \E orderId \in ViewOrderIds, outcome \in Outcomes : bulkDeleteDone(orderId, outcome)

ViewSpec == ViewInit /\ [][ViewNext]_vars

\* ---------------------------------------------------------- derived lists
\* What a render derives from the collection: the counts, progress bars and
\* 'Recent At-Risk Orders' of DeliveryRiskOverview, the 'At Risk' stat card,
\* and the visible list of the order table (search and default sort).
\* Strings that are searched are sequences of characters; null is NullText.
NullText == <<None>>

DerivedIds == <<"o1", "o2", "o3", "o4">>

\* The text fields of the orders that are listed.
TextsOf(id) ==
    CASE id = "o1" -> [orderId |-> <<"A", "1">>, trackingNumber |-> <<"1", "Z", "9">>,
                       carrier |-> <<"U", "P", "S">>]
      [] id = "o2" -> [orderId |-> <<"b", "2">>, trackingNumber |-> <<"z", "z">>,
                       carrier |-> NullText]
      [] id = "o3" -> [orderId |-> <<"A", "3">>, trackingNumber |-> <<"9", "9">>,
                       carrier |-> <<"u", "s", "p", "s">>]
      [] OTHER -> [orderId |-> <<"c", "4">>, trackingNumber |-> <<"1", "z">>,
                   carrier |-> NullText]

OverviewRisks == {"green", "yellow", "red", None}

CreatedAts == {"2024-01-01", "2024-01-02", "2024-01-03"}

\* new Date(createdAt).getTime(), in days since 2023-12-31
getTime(createdAt) ==
    CASE createdAt = "2024-01-01" -> 1
      [] createdAt = "2024-01-02" -> 2
      [] OTHER -> 3

ListedOrder(id, riskLevel, createdAt) ==
    [id |-> id, orderId |-> TextsOf(id).orderId,
     trackingNumber |-> TextsOf(id).trackingNumber, carrier |-> TextsOf(id).carrier,
     riskLevel |-> riskLevel, createdAt |-> createdAt]

\* Array.prototype.sort with (a, b) => getTime(b.createdAt) - getTime(a.createdAt):
\* a stable sort, newest first.
RECURSIVE InsertByCreatedAtDesc(_, _)
InsertByCreatedAtDesc(sorted, o) ==
    IF sorted = <<>> THEN <<o>>
    ELSE IF getTime(Head(sorted).createdAt) >= getTime(o.createdAt)
         THEN <<Head(sorted)>> \o InsertByCreatedAtDesc(Tail(sorted), o)
         ELSE <<o>> \o sorted

RECURSIVE sortByCreatedAtDesc(_)
sortByCreatedAtDesc(os) ==
    IF os = <<>> THEN <<>>
    ELSE InsertByCreatedAtDesc(sortByCreatedAtDesc(SubSeq(os, 1, Len(os) - 1)),
                               os[Len(os)])

\* Array.prototype.slice(0, n)
Slice(os, n) == SubSeq(os, 1, IF Len(os) < n THEN Len(os) ELSE n)

healthyCount(os) == Len(SelectSeq(os, LAMBDA o : o.riskLevel = "green"))

attentionCount(os) == Len(SelectSeq(os, LAMBDA o : o.riskLevel = "yellow"))

highRiskCount(os) == Len(SelectSeq(os, LAMBDA o : o.riskLevel = "red"))

\* Mutant of total: the number of orders, also when there are none.
total_NoFallback(os) == Len(os)

\* const total = orders.length || 1
total(os) == IF Len(os) = 0 THEN 1 ELSE Len(os)

\* Mutant of atRiskOrders: the list is not cut to three entries.
atRiskOrders_NoSlice(os) ==
    sortByCreatedAtDesc(SelectSeq(os, LAMBDA o : o.riskLevel \in {"yellow", "red"}))

\* orders.filter(..yellow or red..).sort(..createdAt desc..).slice(0, 3)
atRiskOrders(os) ==
    Slice(sortByCreatedAtDesc(SelectSeq(os, LAMBDA o : o.riskLevel \in {"yellow", "red"})),
          3)

\* width: `${(count / total) * 100}%`, as the fraction num / den
ProgressBar(count, whole) == [count |-> count, num |-> count * 100, den |-> whole]

\* StatCard 'At Risk'
atRiskStat(os) == Len(SelectSeq(os, LAMBDA o : o.riskLevel = "red" \/ o.riskLevel = "yellow"))

\* DeliveryRiskOverview and the stat cards are rendered for the collection.
\* filter returns a new array, which sort then sorts in place: the orders
\* prop itself is left as it is.
RenderOverview ==
    /\ derived.kind = "none"
    /\ derived' = [kind |-> "overview",
                   healthy |-> ProgressBar(healthyCount(orders), total(orders)),
                   attention |-> ProgressBar(attentionCount(orders), total(orders)),
                   highRisk |-> ProgressBar(highRiskCount(orders), total(orders)),
                   atRisk |-> atRiskOrders(orders),
                   atRiskStat |-> atRiskStat(orders)]
    /\ UNCHANGED <<identity, page, modal, inflight, issued, last>>
    /\ UNCHANGED <<riskFilter, selectedIds, bulk, pressed, cell>>

\* The search texts that are typed.
SearchTexts ==
    {<<>>, <<"a">>, <<"1", "z">>, <<"Z", "Z">>, <<"U", "p">>, <<"n", "o">>, <<"x">>}

LowerChar(c) ==
    CASE c = "A" -> "a"
      [] c = "Z" -> "z"
      [] c = "U" -> "u"
      [] c = "P" -> "p"
      [] c = "S" -> "s"
      [] OTHER -> c

LowerCaseOf(text) == [i \in DOMAIN text |-> LowerChar(text[i])]

\* String.prototype.includes
Includes(text, part) ==
    \E i \in 0 .. (Len(text) - Len(part)) : SubSeq(text, i + 1, i + Len(part)) = part

\* Mutant of matchesSearch: the search text is compared as it is typed.
matchesSearch_CaseSensitive(o, searchText) ==
    \/ Includes(LowerCaseOf(o.orderId), searchText)
    \/ Includes(LowerCaseOf(o.trackingNumber), searchText)
    \/ o.carrier # NullText /\ Includes(LowerCaseOf(o.carrier), searchText)

\* Search: case-insensitive substring match against orderId, trackingNumber
\* and carrier (skipped if carrier is absent).
matchesSearch(o, searchText) ==
    \/ Includes(LowerCaseOf(o.orderId), LowerCaseOf(searchText))
    \/ Includes(LowerCaseOf(o.trackingNumber), LowerCaseOf(searchText))
    \/ o.carrier # NullText /\ Includes(LowerCaseOf(o.carrier), LowerCaseOf(searchText))

searchFilter(os, searchText) == SelectSeq(os, LAMBDA o : matchesSearch(o, searchText))

\* Mutant of defaultSort: the table keeps the order of the collection.
defaultSort_CollectionOrder(os) == os

\* Default sort: createdAt, descending (newest first).
defaultSort(os) == sortByCreatedAtDesc(os)

\* The order table derives its visible list: the search filter, then the
\* default sort.
RenderTable(searchText) ==
    /\ derived.kind = "none"
    /\ derived' = [kind |-> "table",
                   searchText |-> searchText,
                   filtered |-> searchFilter(orders, searchText),
                   visible |-> defaultSort(searchFilter(orders, searchText))]
    /\ UNCHANGED <<identity, page, modal, inflight, issued, last>>
    /\ UNCHANGED <<riskFilter, selectedIds, bulk, pressed, cell>>

DeriveInit ==
    /\ \E n \in 0 .. Len(DerivedIds) :
          \E risks \in [1 .. n -> OverviewRisks], dates \in [1 .. n -> CreatedAts] :
             Loaded([i \in 1 .. n |-> ListedOrder(DerivedIds[i], risks[i], dates[i])])
    /\ ViewIdle

DeriveNext ==
    \/ RenderOverview
    \/ \E searchText \in SearchTexts : RenderTable(searchText)

DeriveSpec == DeriveInit /\ [][DeriveNext]_vars

\* ================================================================ claims
Failed(ev) == ev.outcome \in Outcomes \ {"ok"}

ListInFlight(reqs) == {r \in reqs : r.kind = "list"}

\* The requests of reqs2 that were sent in the step from reqs1 (request
\* numbers are handed out in order).
Sent(n, reqs2) == {r \in reqs2 : r.n > n}

\* ---- C1
\* C1: when a single delete comes back with a non-OK response or the request
\* throws, the step leaves the order collection exactly as it was (an order
\* with that id that was present is still present) and the failure alert is
\* shown.
C1_DeleteFailureLeavesOrders ==
    [][ (last'.op = "deleteOrder" /\ Failed(last')) =>
            /\ orders' = orders
            /\ (last'.id \in Ids(orders) => last'.id \in Ids(orders'))
            /\ last'.alert = "Failed to delete order" ]_vars

C1_Witness ==
    /\ last.op = "deleteOrder"
    /\ last.outcome = "notOkJson"
    /\ last.id \in Ids(orders)
    /\ last.alert = "Failed to delete order"

\* ---- C2
\* C2: list, create, single delete and check tracking change the order
\* collection only on a confirmed success: a step that completes one of them
\* with a non-OK response or a throw leaves the collection unchanged, and
\* every element of it is a well-formed order.
C2_ChangedOnlyAfterSuccess ==
    [][ (last'.op \in {"fetchOrders", "handleSubmit", "deleteOrder", "checkTracking"}
            /\ Failed(last')) =>
            /\ orders' = orders
            /\ \A i \in DOMAIN orders' : WellFormed(orders'[i]) ]_vars

\* ---- C3
\* C3: when a single delete comes back OK, the collection afterwards is the
\* collection before the response without the order of that id: no order of
\* that id, every other order kept, in the same relative order.
C3_DeleteOkRemovesOnlyThatOrder ==
    [][ (last'.op = "deleteOrder" /\ last'.outcome = "ok") =>
            orders' = Remove(orders, last'.id) ]_vars

\* ---- C4
\* C4: when a check-tracking request succeeds and nothing changed the
\* collection since it was sent, the collection afterwards has the same
\* length and the same ids at the same positions; the entry of that id is the
\* order the backend returned and every other entry is unchanged.
C4_CheckOkReplacesInPlace ==
    [][ (last'.op = "checkTracking" /\ last'.outcome = "ok" /\ last'.fresh) =>
            /\ Len(orders') = Len(orders)
            /\ \A i \in DOMAIN orders :
                  /\ orders'[i].id = orders[i].id
                  /\ orders[i].id = last'.id => orders'[i] = last'.body[1]
                  /\ orders[i].id # last'.id => orders'[i] = orders[i] ]_vars

C4_Witness ==
    /\ last.op = "checkTracking"
    /\ last.outcome = "ok"
    /\ last.fresh
    /\ Len(orders) = 2
    /\ orders[2] = last.body[1]
    /\ orders[1].riskLevel # orders[2].riskLevel

\* ---- C5
\* C5: mounting the page for a signed-in user, and every change of the user
\* id to a present value, sends one list request for that user; and a list
\* request that succeeds replaces the collection by exactly the orders array
\* of the response (empty when it has none) and clears the error banner.
C5_ListIssuedAndReplacesWholesale ==
    [][ /\ (userId' # userId /\ userId' # None) =>
              \E r \in Sent(issued, inflight') :
                 /\ Sent(issued, inflight') = {r}
                 /\ r.kind = "list"
                 /\ r.uid = userId'
        /\ (last'.op = "fetchOrders" /\ last'.outcome = "ok") =>
              /\ orders' = last'.body
              /\ error' = None ]_vars

C5_Witness ==
    /\ last.op = "fetchOrders"
    /\ last.outcome = "ok"
    /\ issued = 2
    /\ userId = "u2"
    /\ Len(orders) = 1
    /\ error = None

\* ---- C6
\* C6: after a list request has failed, because fetch threw or because the
\* response was not OK, the error banner is shown and the page has left the
\* loading state.
C6_ListFailureShowsBanner ==
    (last.op = "fetchOrders" /\ Failed(last)) => (error # None /\ ~loading)

\* ---- C7
\* C7: no two check-tracking or delete requests for the same order are in
\* flight at the same time.
C7_NoOverlapPerOrder ==
    \A r1, r2 \in inflight :
        (/\ r1.kind \in {"check", "delete"}
         /\ r2.kind \in {"check", "delete"}
         /\ r1.id = r2.id) => r1 = r2

\* ---- C8
\* C8: a step sends at most one request, and only a mount, a change of the
\* user id, a user action or a successful create (which sends exactly one
\* list request) sends one; a step that completes a request with a failure
\* sends none.
C8_NoAutomaticReissue ==
    [][ /\ Cardinality(Sent(issued, inflight')) <= 1
        /\ Sent(issued, inflight') # {} =>
              \/ last'.op \in {"mount", "userSwitch", "user"}
              \/ last'.op = "handleSubmit" /\ last'.outcome = "ok"
        /\ (last'.op = "handleSubmit" /\ last'.outcome = "ok") =>
              \E r \in Sent(issued, inflight') : r.kind = "list"
        /\ Failed(last') => Sent(issued, inflight') = {} ]_vars

C8_Witness ==
    /\ last.op = "fetchOrders"
    /\ last.outcome = "throws"
    /\ inflight = {}
    /\ issued = 3

\* ---- C9
\* C9 (as stated): while a list request is pending the page is in the
\* loading state.
C9_PendingListKeepsLoading == ListInFlight(inflight) # {} => loading

\* C9 (amended): loading goes from true to false only in a step that
\* completes a list request; no other step clears it.
C9_OnlyListCompletionClearsLoading ==
    [][ (loading /\ ~loading') =>
            /\ last'.op = "fetchOrders"
            /\ \E r \in ListInFlight(inflight) : r \notin inflight' ]_vars

C9_Witness ==
    /\ last.op = "fetchOrders"
    /\ ~loading
    /\ ListInFlight(inflight) # {}
    /\ location = "app"

\* ---- C10
\* C10: once the identity provider has loaded and reports not signed in, the
\* browser has been sent to the landing or sign-in destination; before it
\* has loaded no redirect has happened; and the dashboard content is rendered
\* only for a signed-in user.
C10_SignedOutIsRedirected ==
    /\ (isLoaded /\ ~isSignedIn) => location \in {"landing", "signin"}
    /\ ~isLoaded => location = "app"
    /\ DashboardRendered => (isSignedIn /\ userId # None /\ location = "app")

C10_Witness ==
    /\ isLoaded
    /\ ~isSignedIn
    /\ location = "landing"
    /\ issued > 0

\* ---- C11
\* C11: every list, create, delete and check request is sent with the
\* identity header set to the user id that is current when it is sent, and
\* no request is sent while the user id is absent.
C11_RequestsCarryCurrentUser ==
    [][ \A r \in Sent(issued, inflight') :
            /\ userId' # None
            /\ r.uid = userId' ]_vars

C13_OrdersAreLatestBackendValues ==
    [][ /\ \A i \in DOMAIN orders' :
              \/ \E j \in DOMAIN orders : orders'[i] = orders[j]
              \/ /\ last'.outcome = "ok"
                 /\ \E j \in DOMAIN last'.body : orders'[i] = last'.body[j]
        /\ last'.outcome = "ok" =>
              \A j \in DOMAIN last'.body :
                 \A i \in DOMAIN orders' :
                    orders'[i].id = last'.body[j].id =>
                       orders'[i].riskLevel = last'.body[j].riskLevel ]_vars

C15_RiskShownOrUnknown ==
    cell.rendered =>
        /\ cell.risk # TypeError
        /\ cell.riskLevel = "green" => cell.risk.color = "bg-emerald-500 text-white"
        /\ cell.riskLevel = "yellow" => cell.risk.color = "bg-amber-400 text-gray-900"
        /\ cell.riskLevel = "red" => cell.risk.color = "bg-red-500 text-white"
        /\ cell.riskLevel \notin {"green", "yellow", "red"} => cell.risk.text = "Unknown"

\* C15 (amended): green, yellow and red, however capitalised, are shown in
\* the emerald, amber and red badge; every other non-empty value is shown in
\* the grey default badge; the text of a badge is the value itself; an absent
\* or empty value is shown as a dash; no value causes an error.
C15_RiskBadgeOrDash ==
    cell.rendered =>
        /\ cell.risk # TypeError
        /\ IF cell.riskLevel \in {None, ""}
           THEN cell.risk = [text |-> "-", color |-> "text-slate-500"]
           ELSE /\ cell.risk.text = cell.riskLevel
                /\ cell.risk.color =
                      CASE cell.riskLevel \in {"green", "GREEN"} -> "bg-emerald-500 text-white"
                        [] cell.riskLevel = "yellow" -> "bg-amber-400 text-gray-900"
                        [] cell.riskLevel \in {"red", "Red"} -> "bg-red-500 text-white"
                        [] OTHER -> "bg-gray-700 text-gray-300"

C15_Witness ==
    /\ cell.rendered
    /\ cell.riskLevel = "purple"
    /\ cell.risk.text = "purple"
    /\ cell.risk.color = "bg-gray-700 text-gray-300"

\* ---- C16
\* C16: once a bulk delete has finished, whatever the outcomes of its
\* requests, no attempted id is in the collection or in the selection, and
\* the reported count is the number of its requests that succeeded.
C16_BulkDeleteBestEffort ==
    bulk.phase = "done" =>
        /\ bulk.attempted \cap Ids(orders) = {}
        /\ bulk.attempted \cap selectedIds = {}
        /\ bulk.reported = Cardinality({r \in bulk.results : r[2] = "ok"})

C16_Witness ==
    /\ bulk.phase = "done"
    /\ Cardinality(bulk.attempted) = 3
    /\ \E r \in bulk.results : r[2] = "throws"
    /\ bulk.reported = 2
    /\ orders = <<>>

\* ---- C17
\* C17 (as stated): a select-all press empties the selection when it was
\* the whole visible set and otherwise makes it exactly the visible set; and
\* after two presses in a row the selection is empty.
C17_SelectAllTwiceIsEmpty ==
    /\ pressed.n = 1 =>
          selectedIds = IF pressed.before = VisibleIds THEN {} ELSE VisibleIds
    /\ pressed.n = 2 => selectedIds = {}

\* C17 (amended): a select-all press empties the selection when it was the
\* whole visible set and otherwise makes it exactly the visible set; after
\* two presses in a row the selection is empty when it was not the whole
\* visible set before them, and the whole visible set when it was.
C17_SelectAllIsAToggle ==
    /\ pressed.n = 1 =>
          selectedIds = IF pressed.before = VisibleIds THEN {} ELSE VisibleIds
    /\ pressed.n = 2 =>
          selectedIds = IF pressed.before = VisibleIds THEN VisibleIds ELSE {}

C17_Witness ==
    /\ pressed.n = 2
    /\ pressed.before # {}
    /\ pressed.before # VisibleIds
    /\ Cardinality(VisibleIds) = 2
    /\ selectedIds = {}

C19_SelectAllAfterFilterIsVisible ==
    /\ (pressed.n = 0 /\ pressed.afterFilter) => selectedIds = pressed.before
    /\ (pressed.n = 1 /\ pressed.afterFilter) => selectedIds = VisibleIds

\* C19 (amended): a filter change with a non-empty selection leaves the
\* selection as it was; a select-all press right after it makes the
\* selection exactly the visible ids, or empties it when it already was
\* exactly the visible ids: in both cases no hidden id stays selected.
C19_FilterKeepsSelection ==
    /\ (pressed.n = 0 /\ pressed.afterFilter) =>
          /\ selectedIds = pressed.before
          /\ selectedIds # {}
    /\ (pressed.n = 1 /\ pressed.afterFilter) =>
          /\ selectedIds \subseteq VisibleIds
          /\ pressed.before # VisibleIds => selectedIds = VisibleIds
          /\ pressed.before = VisibleIds => selectedIds = {}

C19_Witness ==
    /\ pressed.n = 1
    /\ pressed.afterFilter
    /\ ~(pressed.before \subseteq VisibleIds)
    /\ selectedIds = VisibleIds
    /\ VisibleIds # {}
    /\ riskFilter = "red"

\* ---- C20
\* C20: at most one request of a bulk delete is in flight at any moment, it
\* is the request of an attempted id, and a finished bulk delete has sent
\* exactly one request for each attempted id.
C20_BulkDeleteSequential ==
    /\ Cardinality(bulk.pending) <= 1
    /\ bulk.pending \subseteq bulk.attempted
    /\ bulk.phase = "done" =>
          /\ {r[1] : r \in bulk.results} = bulk.attempted
          /\ Cardinality(bulk.results) = Cardinality(bulk.attempted)

C20_Witness ==
    /\ bulk.phase = "running"
    /\ Cardinality(bulk.pending) = 1
    /\ bulk.remaining # {}
    /\ bulk.results # {}

\* ---- C23
\* C23: when two check-tracking requests for two different orders were in
\* flight together and both succeed, one right after the other, the
\* collection afterwards holds both orders the backend returned.
C23_BothCheckUpdatesKept ==
    [][ (/\ last.op = "checkTracking" /\ last.outcome = "ok"
         /\ last'.op = "checkTracking" /\ last'.outcome = "ok"
         /\ last'.id # last.id) =>
            /\ \E i \in DOMAIN orders' : orders'[i] = last.body[1]
            /\ \E i \in DOMAIN orders' : orders'[i] = last'.body[1] ]_vars

\* ---- C24
\* C24: an order that a successful delete has just removed is not put back
\* into the collection by the completion of a check-tracking request that
\* was in flight when the delete completed.
C24_DeletedOrderStaysDeleted ==
    [][ (/\ last.op = "deleteOrder" /\ last.outcome = "ok"
         /\ last'.op = "checkTracking") =>
            last.id \notin Ids(orders') ]_vars

\* ---- C25
\* C25: when two list requests overlap and the most recently issued one
\* succeeds first, the completion of the older one right after it leaves the
\* collection equal to the response of the most recently issued one.
C25_LastIssuedListWins ==
    [][ (/\ last.op = "fetchOrders" /\ last.outcome = "ok" /\ last.fresh
         /\ last'.op = "fetchOrders") =>
            orders' = last.body ]_vars

\* ---- C26
\* C26: a step that completes a list request leaves loading false; when the
\* request threw, the step leaves the collection as it was and sets the
\* error message to 'Failed to load orders'.
C26_ListCompletionClearsLoading ==
    [][ last'.op = "fetchOrders" =>
            /\ ~loading'
            /\ last'.outcome \in {"throws", "notOkText"} =>
                  /\ orders' = orders
                  /\ error' = "Failed to load orders" ]_vars

C26_Witness ==
    /\ last.op = "fetchOrders"
    /\ last.outcome = "throws"
    /\ ~loading
    /\ Len(orders) = 2
    /\ error = "Failed to load orders"
    /\ ListInFlight(inflight) = {}


\* ---- C21
\* The fields of an order that the search looks at.
SearchedFields(o) ==
    {o.orderId, o.trackingNumber} \cup (IF o.carrier = NullText THEN {} ELSE {o.carrier})

\* text contains part at some position, letters compared without their case
ContainsIgnoringCase(text, part) ==
    \E at \in 0 .. Len(text) :
       /\ at + Len(part) <= Len(text)
       /\ \A k \in 1 .. Len(part) : LowerChar(text[at + k]) = LowerChar(part[k])

IsSubsequenceOf(sub, os) ==
    \E f \in [1 .. Len(sub) -> 1 .. Len(os)] :
       /\ \A i \in 1 .. Len(sub) : sub[i] = os[f[i]]
       /\ \A i, j \in 1 .. Len(sub) : i < j => f[i] < f[j]

Elements(os) == {os[i] : i \in DOMAIN os}

AtRisk(o) == o.riskLevel \in {"yellow", "red"}

\* C27: 'Recent At-Risk Orders' has at most 3 entries, each yellow or red and
\* each an order of the collection, newest first by createdAt; no at-risk order
\* that is left out is newer than one that is listed; and rendering the list
\* leaves the collection as it was.
C27_RecentAtRiskOrders ==
    [][ derived'.kind = "overview" =>
          /\ Len(derived'.atRisk) <= 3
          /\ \A i \in DOMAIN derived'.atRisk :
                /\ AtRisk(derived'.atRisk[i])
                /\ derived'.atRisk[i] \in Elements(orders)
          /\ \A i, j \in DOMAIN derived'.atRisk :
                i < j => /\ derived'.atRisk[i] # derived'.atRisk[j]
                         /\ getTime(derived'.atRisk[i].createdAt) >=
                               getTime(derived'.atRisk[j].createdAt)
          /\ \A o \in Elements(orders) \ Elements(derived'.atRisk) :
                AtRisk(o) =>
                   /\ Len(derived'.atRisk) = 3
                   /\ \A i \in DOMAIN derived'.atRisk :
                         getTime(o.createdAt) <= getTime(derived'.atRisk[i].createdAt)
          /\ orders' = orders ]_vars

\* Four at-risk orders, the oldest first in the collection: the three newer
\* ones are listed, newest first, and the collection is still oldest first.
C27_Witness ==
    /\ derived.kind = "overview"
    /\ Len(orders) = 4
    /\ \A i \in DOMAIN orders : AtRisk(orders[i])
    /\ getTime(orders[1].createdAt) < getTime(orders[2].createdAt)
    /\ getTime(orders[2].createdAt) < getTime(orders[4].createdAt)
    /\ Len(derived.atRisk) = 3
    /\ derived.atRisk[1] = orders[4]
    /\ orders[1] \notin Elements(derived.atRisk)

\* ---- C28
Bars == {"healthy", "attention", "highRisk"}

\* C28: the healthy, attention and high-risk counts sum to at most the number
\* of orders, the 'At Risk' stat is attention plus high-risk, and every
\* progress bar's share has a non-zero denominator (1 for an empty
\* collection) and lies between 0 and 100 percent.
C28_CountsAndShares ==
    derived.kind = "overview" =>
        /\ derived.healthy.count + derived.attention.count + derived.highRisk.count
              <= Len(orders)
        /\ derived.atRiskStat = derived.attention.count + derived.highRisk.count
        /\ \A b \in Bars :
              /\ derived[b].den # 0
              /\ orders = <<>> => derived[b].den = 1
              /\ derived[b].den > 0
              /\ 0 <= derived[b].num
              /\ derived[b].num <= 100 * derived[b].den

\* One order of each risk level and one without a risk level: the counts sum
\* to less than the number of orders.
C28_Witness ==
    /\ derived.kind = "overview"
    /\ Len(orders) = 4
    /\ derived.healthy.count = 1
    /\ derived.attention.count = 1
    /\ derived.highRisk.count = 1
    /\ derived.atRiskStat = 2
    /\ derived.healthy.num = 100 /\ derived.healthy.den = 4

====
